---- MODULE Spec2Model ----
(***************************************************************************)
(* Model of webapp/src/space.ts: the Space class, its request correlator   *)
(* (wsCall), the update exchange (pushUpdates / pullUpdates), and the page *)
(* registry kept by the constructor's handlers.                            *)
(*                                                                         *)
(* JavaScript is single threaded: every method call, every socket event    *)
(* and every response callback (with the promise continuations it          *)
(* triggers) runs to completion, so each is one action.                    *)
(***************************************************************************)
EXTENDS Bags, FiniteSets, Integers, Sequences, TLC

VARIABLES
    constructed,  \* the constructor has run
    socket,       \* this.socket is set (truthy)
    reqId,        \* this.reqId
    allPages,     \* this.allPages: a Set of PageMeta objects, kept as a bag of values
    listeners,    \* one-shot listeners registered on the socket by wsCall
    promises,     \* the promises created by wsCall, in call order
    sent,         \* correlated requests emitted on the channel, in emission order
    socketOps,    \* socket operations (once / emit) performed by the last step
    emits,        \* this.emit calls performed by the last step, in call order
    received,     \* what a subscriber registered after construction receives
                  \* during the last step, in order of receipt
    lastOp,       \* the operation performed by the last step, with its inputs
    server,       \* the server's page set and whether it has answered page.listPages
    channel,      \* messages from the server that are in flight, oldest first
    snapshot,     \* the array most recently returned by listPages()
    batch         \* the frame of the indexBatchSet call, suspended at its await

vars == <<constructed, socket, reqId, allPages, listeners, promises, sent,
          socketOps, emits, received, lastOp, server, channel, snapshot, batch>>

\* The state outside the Space object and the frames of its callers.
outside == <<server, channel, snapshot, batch>>

----------------------------------------------------------------------------
(* Bounds of the model. *)

MaxReqId == 3     \* calls are issued while this.reqId stays within this bound
MaxPages == 2     \* pageCreated is delivered while the registry holds fewer entries
MaxInFlight == 2  \* the server sends while fewer of its messages are in flight
MaxBatchReqId == 4  \* bound on this.reqId while indexBatchSet is exercised

----------------------------------------------------------------------------
(* JavaScript values that cross the channel, tagged with their type. *)

Null == [t |-> "null", v |-> 0]
Undefined == [t |-> "undefined", v |-> 0]
Str(s) == [t |-> "string", v |-> s]
Num(n) == [t |-> "number", v |-> n]
Bool(b) == [t |-> "boolean", v |-> b]
Arr(s) == [t |-> "array", v |-> s]
Obj(r) == [t |-> "object", v |-> r]
TypeError == [t |-> "TypeError", v |-> 0]

\* The test `if (err)`: JavaScript truthiness of the first response field.
Truthy(x) ==
    CASE x.t = "null" -> FALSE
      [] x.t = "undefined" -> FALSE
      [] x.t = "boolean" -> x.v
      [] x.t = "number" -> x.v # 0
      [] x.t = "string" -> x.v # ""
      [] OTHER -> TRUE

Range(s) == {s[i] : i \in DOMAIN s}

\* new Set(pages): every element of a deserialised array is a distinct object,
\* so the set holds one entry per array element.
SetOfArray(s) ==
    [m \in Range(s) |-> Cardinality({i \in DOMAIN s : s[i] = m})]

----------------------------------------------------------------------------
(* Inputs: the callers' arguments, the server's events and responses. *)

PageNames == {"a", "b"}
PageMetas == [name : PageNames, lastModified : {1}]

\* A ChangeSet of the change-set library: sections (len, ins) with the text
\* inserted by the sections that insert.
KeepIns == [len |-> 3, ins |-> 0 - 1, text |-> <<>>]
DelIns == [len |-> 2, ins |-> 0, text |-> <<>>]
AddIns == [len |-> 0, ins |-> 1, text |-> <<"x">>]

\* A local update (Update & {origin}); effects is optional.
UpdateU1 == [clientID |-> "c1", changes |-> <<KeepIns, AddIns>>,
             effects |-> <<[value |-> 7]>>]
UpdateU2 == [clientID |-> "c2", changes |-> <<DelIns>>]

\* The arguments callers pass to pushUpdates and pullUpdates.
PushInputs == {<<"a", 5, <<UpdateU1, UpdateU2>>>>, <<"b", 6, <<>>>>}
PullInputs == {<<"a", 5>>, <<"b", 6>>}

\* ChangeSet.toJSON / ChangeSet.fromJSON of the change-set library: a section
\* that keeps text is a number, one that deletes is [len], one that inserts is
\* [len, ...lines].
SectionToJSON(sec) ==
    IF sec.ins < 0 THEN Num(sec.len)
    ELSE IF sec.ins = 0 THEN Arr(<<sec.len>>)
    ELSE Arr(<<sec.len>> \o sec.text)

toJSON(changes) ==
    [i \in DOMAIN changes |-> SectionToJSON(changes[i])]

SectionFromJSON(part) ==
    IF part.t = "number" THEN [len |-> part.v, ins |-> 0 - 1, text |-> <<>>]
    ELSE IF Len(part.v) = 1 THEN [len |-> part.v[1], ins |-> 0, text |-> <<>>]
    ELSE [len |-> part.v[1], ins |-> Len(part.v) - 1, text |-> Tail(part.v)]

fromJSON(json) ==
    [i \in DOMAIN json |-> SectionFromJSON(json[i])]

----------------------------------------------------------------------------
(* The request correlator. *)

\* A response name that leaves out the request identifier.
RespNameNoId(eventName, id) ==
    eventName \o "Resp"

\* `${eventName}Resp${this.reqId}`
RespName(eventName, id) ==
    eventName \o "Resp" \o ToString(id)

\* The promise created by wsCall. cont names the continuation the caller
\* attached; outer is the promise that continuation (or the async wrapper)
\* settles; ran lists the responses that ran the callback of lines 68-74.
NewPromise(eventName, id, cont) ==
    [ev |-> eventName, id |-> id, emitted |-> socket, cont |-> cont,
     state |-> IF socket THEN "pending" ELSE "rejected",
     value |-> IF socket THEN Undefined ELSE TypeError,
     outer |-> IF socket THEN [state |-> "pending", value |-> Undefined]
               ELSE [state |-> "rejected", value |-> TypeError],
     ran |-> <<>>]

\* wsCall without `this.reqId++`.
wsCallNoIncrement(rid, eventName, args, cont) ==
    LET id == rid
        name == RespName(eventName, id)
        call == Len(promises) + 1
    IN  /\ reqId' = id
        /\ promises' = Append(promises, NewPromise(eventName, id, cont))
        /\ listeners' = listeners \cup {[name |-> name, call |-> call]}
        /\ socketOps' = <<[op |-> "once", name |-> name],
                          [op |-> "emit", name |-> eventName, id |-> id,
                           args |-> args]>>
        /\ sent' = Append(sent, [ev |-> eventName, id |-> id])

\* wsCall emitting the request before it registers the listener.
wsCallEmitFirst(rid, eventName, args, cont) ==
    LET id == rid + 1
        name == RespName(eventName, id)
        call == Len(promises) + 1
    IN  /\ reqId' = id
        /\ promises' = Append(promises, NewPromise(eventName, id, cont))
        /\ listeners' = listeners \cup {[name |-> name, call |-> call]}
        /\ socketOps' = <<[op |-> "emit", name |-> eventName, id |-> id,
                           args |-> args],
                          [op |-> "once", name |-> name]>>
        /\ sent' = Append(sent, [ev |-> eventName, id |-> id])

\* wsCall, entered with this.reqId = rid. A missing socket makes
\* `this.socket!.once` throw inside the promise executor after the counter
\* was advanced, which rejects the promise.
wsCall(rid, eventName, args, cont) ==
    LET id == rid + 1
        name == RespName(eventName, id)
        call == Len(promises) + 1
    IN  /\ reqId' = id
        /\ promises' = Append(promises, NewPromise(eventName, id, cont))
        /\ IF socket
           THEN /\ listeners' = listeners \cup {[name |-> name, call |-> call]}
                /\ socketOps' = <<[op |-> "once", name |-> name],
                                  [op |-> "emit", name |-> eventName, id |-> id,
                                   args |-> args]>>
                /\ sent' = Append(sent, [ev |-> eventName, id |-> id])
           ELSE /\ listeners' = listeners
                /\ socketOps' = <<>>
                /\ sent' = sent

\* A callback that neither rejects nor resolves when the response has an error.
CallbackDropsError(p, resp) ==
    IF p.state # "pending" \/ Truthy(resp.err)
    THEN [p EXCEPT !.ran = Append(@, resp)]
    ELSE [p EXCEPT !.state = "resolved", !.value = resp.result,
                   !.ran = Append(@, resp)]

\* The callback of socket.once (lines 68-74) run on promise p; a promise that
\* is already settled ignores resolve and reject.
Callback(p, resp) ==
    IF p.state # "pending"
    THEN [p EXCEPT !.ran = Append(@, resp)]
    ELSE IF Truthy(resp.err)
    THEN [p EXCEPT !.state = "rejected", !.value = resp.err,
                   !.ran = Append(@, resp)]
    ELSE [p EXCEPT !.state = "resolved", !.value = resp.result,
                   !.ran = Append(@, resp)]

\* socket.on in place of socket.once: a listener that fired stays registered.
OnKeep(ls, fired) ==
    ls

\* socket.once: the listeners that fired are removed.
OnceRemove(ls, fired) ==
    ls \ fired

----------------------------------------------------------------------------
(* The update exchange: wire forms. *)

\* A wire form that leaves the cursor payload out.
SerializeNoCursors(u) ==
    [clientID |-> u.clientID, changes |-> toJSON(u.changes), cursors |-> Undefined]

\* pushUpdates, lines 85-89: the wire form of one local update.
Serialize(u) ==
    [clientID |-> u.clientID,
     changes |-> toJSON(u.changes),
     cursors |-> IF "effects" \in DOMAIN u
                 THEN Arr([i \in DOMAIN u.effects |-> u.effects[i].value])
                 ELSE Undefined]

\* cursorEffect.of(value): a state effect carrying the raw cursor value.
cursorEffectOf(value) ==
    [value |-> value]

\* pullUpdates, lines 104-108: the update rebuilt from one wire update u.
Deserialize(u) ==
    IF "effects" \in DOMAIN u
    THEN [changes |-> fromJSON(u.changes),
          effects |-> [i \in DOMAIN u.effects |-> cursorEffectOf(u.effects[i].value)],
          clientID |-> u.clientID]
    ELSE [changes |-> fromJSON(u.changes), clientID |-> u.clientID]

\* What the channel carries of a wire update: JSON drops undefined properties.
OnWire(w) ==
    IF w.cursors.t = "undefined"
    THEN [clientID |-> w.clientID, changes |-> w.changes]
    ELSE [clientID |-> w.clientID, changes |-> w.changes, cursors |-> w.cursors.v]

----------------------------------------------------------------------------
(* The page registry. *)

\* this.allPages.add(meta)
AddPage(pages, meta) ==
    pages (+) SetToBag({meta})

\* A removal that stops at the first entry whose name matches.
RemoveFirstNamed(pages, name) ==
    LET hit == {x \in DOMAIN pages : x.name = name}
        m == CHOOSE x \in hit : TRUE
    IN  IF hit = {} THEN pages
        ELSE IF pages[m] = 1 THEN [x \in DOMAIN pages \ {m} |-> pages[x]]
        ELSE [pages EXCEPT ![m] = @ - 1]

\* this.allPages.forEach(meta => name === meta.name && delete(meta))
RemoveNamed(pages, name) ==
    [m \in {x \in DOMAIN pages : x.name # name} |-> pages[m]]

\* An emit made by a handler: the event, its payload, and the registry contents
\* at the time of the emit (pageListUpdated carries the registry itself).
PageListUpdated(pages) ==
    [event |-> "pageListUpdated", payload |-> pages, registry |-> pages]

\* A pageCreated handler that emits pageListUpdated before it adds the page.
pageCreatedEmitsFirst(pages, meta) ==
    [pages |-> AddPage(pages, meta), out |-> <<PageListUpdated(pages)>>]

\* Lines 48-52: the constructor's pageCreated handler run on registry pages.
pageCreatedHandler(pages, meta) ==
    LET after == AddPage(pages, meta)
    IN  [pages |-> after, out |-> <<PageListUpdated(after)>>]

\* A pageDeleted handler that announces the list without removing the page.
pageDeletedKeeps(pages, name) ==
    [pages |-> pages, out |-> <<PageListUpdated(pages)>>]

\* Lines 53-61: the constructor's pageDeleted handler.
pageDeletedHandler(pages, name) ==
    LET after == RemoveNamed(pages, name)
    IN  [pages |-> after, out |-> <<PageListUpdated(after)>>]

\* A continuation that adds the listed pages to the set instead of replacing it.
listPagesMerges(result) ==
    LET listed == IF result.t = "array" THEN SetOfArray(result.v) ELSE EmptyBag
        after == allPages (+) listed
    IN  [pages |-> after, out |-> <<PageListUpdated(after)>>]

\* Lines 43-46: the continuation of the constructor's page.listPages call.
listPagesThen(result) ==
    LET after == IF result.t = "array" THEN SetOfArray(result.v) ELSE EmptyBag
    IN  [pages |-> after, out |-> <<PageListUpdated(after)>>]

----------------------------------------------------------------------------
(* The event broadcaster (EventEmitter of ./event): emit delivers            *)
(* synchronously to the subscribers of the event in registration order; the  *)
(* constructor's own handlers were registered first.                         *)

\* Handlers that treat pageChanged as they treat pageCreated.
InternalHandlerChangedAdds(event, payload, pages) ==
    CASE event \in {"pageCreated", "pageChanged"} -> pageCreatedHandler(pages, payload)
      [] event = "pageDeleted" -> pageDeletedHandler(pages, payload)
      [] OTHER -> [pages |-> pages, out |-> <<>>]

InternalHandler(event, payload, pages) ==
    CASE event = "pageCreated" -> pageCreatedHandler(pages, payload)
      [] event = "pageDeleted" -> pageDeletedHandler(pages, payload)
      [] OTHER -> [pages |-> pages, out |-> <<>>]

\* The this.emit calls caused by this.emit(event, payload), in call order.
EmitCalls(event, payload, pages) ==
    LET h == InternalHandler(event, payload, pages)
    IN  <<[event |-> event, payload |-> payload]>>
        \o [i \in DOMAIN h.out |-> [event |-> h.out[i].event,
                                    payload |-> h.out[i].payload]]

\* What a subscriber registered after construction receives, in order of
\* receipt, each with the registry contents at that moment.
Receipts(event, payload, pages) ==
    LET h == InternalHandler(event, payload, pages)
    IN  h.out \o <<[event |-> event, payload |-> payload, registry |-> h.pages]>>

----------------------------------------------------------------------------
(* The server's answers. *)

\* The error indicators the server sends: a truthy one for every request; the
\* empty string, which is neither null nor truthy, in answer to page.listPages.
ErrValsFor(ev) ==
    CASE ev = "page.listPages" -> {Str(""), Str("boom")}
      [] ev = "index.set" -> {Str("boom"), Str("full")}
      [] OTHER -> {Str("boom")}

PageJSON == Obj([text |-> <<"hi">>, version |-> 5, cursors |-> <<>>])

ResultsFor(ev) ==
    CASE ev = "page.listPages" ->
           {Arr(<<[name |-> "a", lastModified |-> 1], [name |-> "b", lastModified |-> 1]>>)}
      [] ev = "page.pushUpdates" -> {Bool(TRUE), Bool(FALSE)}
      [] ev = "page.pullUpdates" ->
           {Arr(<<OnWire(Serialize(UpdateU1)), OnWire(Serialize(UpdateU2))>>)}
      [] ev = "page.openPage" -> {PageJSON}
      [] OTHER -> {Undefined}

\* The responses the server may send to request r: (null, result) or (err).
Responses(r) ==
    {[ev |-> r.ev, id |-> r.id, err |-> Null, result |-> x] : x \in ResultsFor(r.ev)}
    \cup {[ev |-> r.ev, id |-> r.id, err |-> e, result |-> Undefined] :
             e \in ErrValsFor(r.ev)}

----------------------------------------------------------------------------
(* Continuations attached to the promise of wsCall. *)

\* The promise the caller holds once the wsCall promise q has settled.
Continue(q) ==
    IF q.state = "rejected"
    THEN [state |-> "rejected", value |-> q.value]
    ELSE CASE q.cont \in {"constructor", "indexSet", "indexDeletePrefixForPage"} ->
                [state |-> "resolved", value |-> Undefined]
           [] q.cont = "pullUpdates" ->
                IF q.value.t = "array"
                THEN [state |-> "resolved",
                      value |-> Arr([i \in DOMAIN q.value.v |-> Deserialize(q.value.v[i])])]
                ELSE [state |-> "rejected", value |-> TypeError]
           [] q.cont = "openPage" ->
                IF q.value.t = "object"
                THEN [state |-> "resolved",
                      value |-> Obj([text |-> q.value.v.text,
                                     version |-> q.value.v.version,
                                     cursors |-> q.value.v.cursors])]
                ELSE [state |-> "rejected", value |-> TypeError]
           [] OTHER -> [state |-> "resolved", value |-> q.value]

\* A fired listener: the callback runs, and when it settles the promise the
\* continuation runs before any other event is processed.
Settle(p, resp) ==
    LET q == Callback(p, resp)
    IN  IF p.state = "pending" THEN [q EXCEPT !.outer = Continue(q)] ELSE q

----------------------------------------------------------------------------
(* Actions. *)

Init ==
    /\ constructed = FALSE
    /\ socket = TRUE
    /\ reqId = 0
    /\ allPages = EmptyBag
    /\ listeners = {}
    /\ promises = <<>>
    /\ sent = <<>>
    /\ socketOps = <<>>
    /\ emits = <<>>
    /\ received = <<>>
    /\ lastOp = [kind |-> "new"]
    /\ server = [pages |-> {}, answered |-> FALSE]
    /\ channel = <<>>
    /\ snapshot = [taken |-> FALSE]
    /\ batch = [state |-> "none"]

\* new Space(socket), lines 28-63.
Construct ==
    /\ ~constructed
    /\ constructed' = TRUE
    /\ wsCall(reqId, "page.listPages", <<>>, "constructor")
    /\ emits' = <<>>
    /\ received' = <<>>
    /\ lastOp' = [kind |-> "constructor", call |-> Len(promises) + 1]
    /\ UNCHANGED <<socket, allPages>>

\* pushUpdates without the `if (this.socket)` guard.
pushUpdatesUnguarded(pageName, version, fullUpdates) ==
    /\ constructed
    /\ reqId + 1 <= MaxReqId
    /\ wsCall(reqId, "page.pushUpdates",
              <<pageName, version,
                [i \in DOMAIN fullUpdates |-> Serialize(fullUpdates[i])]>>,
              "return")
    /\ lastOp' = [kind |-> "pushUpdates", pageName |-> pageName,
                  version |-> version, fullUpdates |-> fullUpdates,
                  call |-> Len(promises) + 1, ret |-> Undefined]
    /\ emits' = <<>>
    /\ received' = <<>>
    /\ UNCHANGED <<constructed, socket, allPages>>

\* pushUpdates(pageName, version, fullUpdates), lines 79-93.
pushUpdates(pageName, version, fullUpdates) ==
    /\ constructed
    /\ IF socket
       THEN /\ reqId + 1 <= MaxReqId
            /\ wsCall(reqId, "page.pushUpdates",
                      <<pageName, version,
                        [i \in DOMAIN fullUpdates |-> Serialize(fullUpdates[i])]>>,
                      "return")
            /\ lastOp' = [kind |-> "pushUpdates", pageName |-> pageName,
                          version |-> version, fullUpdates |-> fullUpdates,
                          call |-> Len(promises) + 1, ret |-> Undefined]
       ELSE /\ socketOps' = <<>>
            /\ lastOp' = [kind |-> "pushUpdates", pageName |-> pageName,
                          version |-> version, fullUpdates |-> fullUpdates,
                          call |-> 0, ret |-> Bool(FALSE)]
            /\ UNCHANGED <<reqId, listeners, promises, sent>>
    /\ emits' = <<>>
    /\ received' = <<>>
    /\ UNCHANGED <<constructed, socket, allPages>>

\* pullUpdates(pageName, version), lines 95-109.
pullUpdates(pageName, version) ==
    /\ constructed
    /\ reqId + 1 <= MaxReqId
    /\ wsCall(reqId, "page.pullUpdates", <<pageName, version>>, "pullUpdates")
    /\ emits' = <<>>
    /\ received' = <<>>
    /\ lastOp' = [kind |-> "pullUpdates", pageName |-> pageName,
                  version |-> version, call |-> Len(promises) + 1]
    /\ UNCHANGED <<constructed, socket, allPages>>

\* openPage(name), lines 115-124: the counter is advanced, then wsCall.
openPage(name) ==
    /\ constructed
    /\ reqId + 2 <= MaxReqId
    /\ wsCall(reqId + 1, "page.openPage", <<name>>, "openPage")
    /\ emits' = <<>>
    /\ received' = <<>>
    /\ lastOp' = [kind |-> "openPage", name |-> name, call |-> Len(promises) + 1]
    /\ UNCHANGED <<constructed, socket, allPages>>

\* What a holder of the array a reads from it while the registry is pages: a
\* fresh array keeps its own items, a shared one shows the registry.
ItemsOf(a, pages) ==
    IF a.fresh THEN a.items ELSE pages

\* listPages handing out the registry itself in place of a copy.
ShareRegistry(pages) ==
    [fresh |-> FALSE, items |-> pages]

\* Array.from(this.allPages), line 112: a new array of the entries.
ArrayFrom(pages) ==
    [fresh |-> TRUE, items |-> pages]

\* listPages(), lines 111-113.
listPages ==
    /\ constructed
    /\ snapshot' = [taken |-> TRUE, array |-> ArrayFrom(allPages)]
    /\ lastOp' = [kind |-> "listPages", ret |-> ArrayFrom(allPages)]
    /\ socketOps' = <<>>
    /\ emits' = <<>>
    /\ received' = <<>>
    /\ UNCHANGED <<constructed, socket, reqId, allPages, listeners, promises, sent>>

\* The page calls of lines 130-144, each `return this.wsCall(event, ...args)`.
PageCall(kind, eventName, args) ==
    /\ constructed
    /\ reqId + 1 <= MaxReqId
    /\ wsCall(reqId, eventName, args, "return")
    /\ emits' = <<>>
    /\ received' = <<>>
    /\ lastOp' = [kind |-> kind, args |-> args, call |-> Len(promises) + 1]
    /\ UNCHANGED <<constructed, socket, allPages>>

\* readPage(name), lines 130-132.
readPage(name) ==
    PageCall("readPage", "page.readPage", <<name>>)

\* writePage(name, text), lines 134-136.
writePage(name, text) ==
    PageCall("writePage", "page.writePage", <<name, text>>)

\* deletePage(name), lines 138-140.
deletePage(name) ==
    PageCall("deletePage", "page.deletePage", <<name>>)

\* getPageMeta(name), lines 142-144.
getPageMeta(name) ==
    PageCall("getPageMeta", "page.getPageMeta", <<name>>)

\* closePage sent through the correlator.
closePageCorrelated(name) ==
    /\ constructed
    /\ reqId + 1 <= MaxReqId
    /\ wsCall(reqId, "page.closePage", <<name>>, "return")
    /\ emits' = <<>>
    /\ received' = <<>>
    /\ lastOp' = [kind |-> "closePage", name |-> name,
                  ret |-> [state |-> "pending", value |-> Undefined]]
    /\ UNCHANGED <<constructed, socket, allPages>>

\* closePage(name), lines 126-128: an async function without an await, so the
\* promise it returns is already resolved.
closePage(name) ==
    /\ constructed
    /\ socketOps' = <<[op |-> "emit", name |-> "page.closePage", args |-> <<name>>]>>
    /\ emits' = <<>>
    /\ received' = <<>>
    /\ lastOp' = [kind |-> "closePage", name |-> name,
                  ret |-> [state |-> "resolved", value |-> Undefined]]
    /\ UNCHANGED <<constructed, socket, reqId, allPages, listeners, promises, sent>>

\* An index call of lines 157-180 that hands its arguments to wsCall.
IndexCall(kind, eventName, pageName, keyOrPrefix, args) ==
    /\ constructed
    /\ wsCall(reqId, eventName, args, "return")
    /\ emits' = <<>>
    /\ received' = <<>>
    /\ lastOp' = [kind |-> kind, pageName |-> pageName, key |-> keyOrPrefix,
                  call |-> Len(promises) + 1]
    /\ UNCHANGED <<constructed, socket, allPages>>

\* indexGet(pageName, key), lines 157-159.
indexGet(pageName, key) ==
    IndexCall("indexGet", "index.get", pageName, key, <<pageName, key>>)

\* indexScanPrefixForPage(pageName, keyPrefix), lines 161-166.
indexScanPrefixForPage(pageName, keyPrefix) ==
    IndexCall("indexScanPrefixForPage", "index.scanPrefixForPage", pageName,
              keyPrefix, <<pageName, keyPrefix>>)

\* indexScanPrefixGlobal(keyPrefix), lines 168-172.
indexScanPrefixGlobal(keyPrefix) ==
    IndexCall("indexScanPrefixGlobal", "index.scanPrefixGlobal", "", keyPrefix,
              <<keyPrefix>>)

\* indexDelete(pageName, key), lines 178-180.
indexDelete(pageName, key) ==
    IndexCall("indexDelete", "index.delete", pageName, key, <<pageName, key>>)

\* indexDeletePrefixForPage(pageName, keyPrefix), lines 174-176: the call
\* awaits wsCall("index.deletePrefixForPage", keyPrefix).
indexDeletePrefixForPage(pageName, keyPrefix) ==
    /\ constructed
    /\ wsCall(reqId, "index.deletePrefixForPage", <<keyPrefix>>,
              "indexDeletePrefixForPage")
    /\ emits' = <<>>
    /\ received' = <<>>
    /\ lastOp' = [kind |-> "indexDeletePrefixForPage", pageName |-> pageName,
                  key |-> keyPrefix, call |-> Len(promises) + 1]
    /\ UNCHANGED <<constructed, socket, allPages>>

\* indexSet(pageName, key, value), lines 146-148.
indexSet(pageName, key, value) ==
    /\ constructed
    /\ wsCall(reqId, "index.set", <<pageName, key, value>>, "indexSet")
    /\ emits' = <<>>
    /\ received' = <<>>
    /\ lastOp' = [kind |-> "indexSet", pageName |-> pageName, key |-> key,
                  call |-> Len(promises) + 1]
    /\ UNCHANGED <<constructed, socket, allPages>>

\* The requests of consecutive indexSet calls (lines 146-148, through wsCall)
\* for the given entries of kvs, entered with this.reqId = rid and with base
\* promises already created.
IndexSetCalls(rid, base, pageName, kvs, entries) ==
    LET n == Len(entries)
        emit(j) == [op |-> "emit", name |-> "index.set", id |-> rid + j,
                    args |-> <<pageName, kvs[entries[j]].key, kvs[entries[j]].value>>]
        once(j) == [op |-> "once", name |-> RespName("index.set", rid + j)]
    IN  [reqId |-> rid + n,
         promises |-> [j \in 1..n |-> NewPromise("index.set", rid + j, "indexSet")],
         listeners |-> {[name |-> RespName("index.set", rid + j), call |-> base + j] :
                           j \in 1..n},
         ops |-> [x \in 1..(2 * n) |->
                    IF x % 2 = 1 THEN once((x + 1) \div 2) ELSE emit(x \div 2)],
         requests |-> [j \in 1..n |-> emit(j)],
         sent |-> [j \in 1..n |-> [ev |-> "index.set", id |-> rid + j]],
         calls |-> [j \in 1..n |-> base + j]]

\* A loop that calls indexSet for every entry without awaiting any of them.
EntriesAllAtOnce(kvs) ==
    [j \in 1..Len(kvs) |-> j]

\* Lines 152-154: the entries whose indexSet is called before the loop first
\* suspends at its await.
EntriesBeforeFirstAwait(kvs) ==
    IF kvs = <<>> THEN <<>> ELSE <<1>>

\* A loop that carries on with the next entry after an indexSet has failed.
LoopIgnoresFailure(b, q) ==
    IF Len(b.calls) < Len(b.kvs) THEN b
    ELSE [b EXCEPT !.state = "resolved", !.value = Undefined]

\* Lines 152-154: the frame b of indexBatchSet once the indexSet promise it
\* awaits has settled as q: a rejection is thrown out of the loop, otherwise
\* the loop moves to the next entry or ends.
LoopAfterAwait(b, q) ==
    IF q.state = "rejected" THEN [b EXCEPT !.state = "rejected", !.value = q.value]
    ELSE IF Len(b.calls) < Len(b.kvs) THEN b
    ELSE [b EXCEPT !.state = "resolved", !.value = Undefined]

\* indexBatchSet(pageName, kvs), lines 150-155, up to its first await.
indexBatchSet(pageName, kvs) ==
    LET e == IndexSetCalls(reqId, Len(promises), pageName, kvs,
                           EntriesBeforeFirstAwait(kvs))
    IN  /\ constructed
        /\ batch.state # "running"
        /\ reqId' = e.reqId
        /\ promises' = promises \o e.promises
        /\ listeners' = listeners \cup e.listeners
        /\ socketOps' = e.ops
        /\ sent' = sent \o e.sent
        /\ batch' = [state |-> IF kvs = <<>> THEN "resolved" ELSE "running",
                     pageName |-> pageName, kvs |-> kvs, calls |-> e.calls,
                     requests |-> e.requests, value |-> Undefined]
        /\ emits' = <<>>
        /\ received' = <<>>
        /\ lastOp' = [kind |-> "indexBatchSet", pageName |-> pageName, kvs |-> kvs]
        /\ UNCHANGED <<constructed, socket, allPages>>

\* The call whose promise the running indexBatchSet awaits.
Awaited(b) ==
    b.calls[Len(b.calls)]

\* The response to the awaited indexSet is delivered: the callback settles
\* the wsCall promise, indexSet returns or throws, and the loop of
\* indexBatchSet resumes before any other event is processed.
DeliverToBatch(resp) ==
    LET c == Awaited(batch)
        name == RespName(promises[c].ev, promises[c].id)
        fired == {l \in listeners : l.name = name}
        q == Settle(promises[c], resp)
        b == LoopAfterAwait(batch, q.outer)
        e == IndexSetCalls(reqId, Len(promises), batch.pageName, batch.kvs,
                           IF b.state = "running" THEN <<Len(batch.calls) + 1>>
                           ELSE <<>>)
    IN  /\ batch.state = "running"
        /\ resp.ev = promises[c].ev
        /\ resp.id = promises[c].id
        /\ reqId' = e.reqId
        /\ promises' = [promises EXCEPT ![c] = q] \o e.promises
        /\ listeners' = OnceRemove(listeners, fired) \cup e.listeners
        /\ socketOps' = e.ops
        /\ sent' = sent \o e.sent
        /\ batch' = [b EXCEPT !.calls = @ \o e.calls,
                              !.requests = @ \o e.requests]
        /\ emits' = <<>>
        /\ received' = <<>>
        /\ lastOp' = [kind |-> "response", name |-> name, fired |-> {c}]
        /\ UNCHANGED <<constructed, socket, allPages>>

\* The server emits the response event of request r with (err, result).
Deliver(r, resp) ==
    LET name == RespName(r.ev, r.id)
        fired == {l \in listeners : l.name = name}
        calls == {l.call : l \in fired}
        synced == {c \in calls : /\ promises[c].cont = "constructor"
                                 /\ Settle(promises[c], resp).outer.state = "resolved"
                                 /\ promises[c].state = "pending"}
        h == IF synced = {} THEN [pages |-> allPages, out |-> <<>>]
             ELSE listPagesThen(resp.result)
    IN  /\ constructed
        /\ promises' = [c \in DOMAIN promises |->
                          IF c \in calls THEN Settle(promises[c], resp)
                          ELSE promises[c]]
        /\ listeners' = OnceRemove(listeners, fired)
        /\ allPages' = h.pages
        /\ emits' = [i \in DOMAIN h.out |-> [event |-> h.out[i].event,
                                             payload |-> h.out[i].payload]]
        /\ received' = h.out
        /\ socketOps' = <<>>
        /\ lastOp' = [kind |-> "response", name |-> name, fired |-> calls]
        /\ UNCHANGED <<constructed, socket, reqId, sent>>

\* Lines 32-42: a server-pushed event is forwarded to this.emit.
Forward(event, payload) ==
    /\ constructed
    /\ allPages' = InternalHandler(event, payload, allPages).pages
    /\ emits' = EmitCalls(event, payload, allPages)
    /\ received' = Receipts(event, payload, allPages)
    /\ socketOps' = <<>>
    /\ lastOp' = [kind |-> event, payload |-> payload]
    /\ UNCHANGED <<constructed, socket, reqId, listeners, promises, sent>>

OnPageCreated(meta) ==
    /\ BagCardinality(allPages) < MaxPages
    /\ Forward("pageCreated", meta)

OnPageDeleted(name) ==
    Forward("pageDeleted", name)

OnPageChanged(meta) ==
    Forward("pageChanged", meta)

Next ==
    \/ Construct /\ UNCHANGED outside
    \/ \E a \in PushInputs : pushUpdates(a[1], a[2], a[3]) /\ UNCHANGED outside
    \/ \E a \in PullInputs : pullUpdates(a[1], a[2]) /\ UNCHANGED outside
    \/ \E n \in PageNames : openPage(n) /\ UNCHANGED outside
    \/ \E i \in DOMAIN sent : \E resp \in Responses(sent[i]) :
           Deliver(sent[i], resp) /\ UNCHANGED outside
    \/ \E m \in PageMetas : OnPageCreated(m) /\ UNCHANGED outside
    \/ \E n \in PageNames : OnPageDeleted(n) /\ UNCHANGED outside
    \/ \E m \in PageMetas : OnPageChanged(m) /\ UNCHANGED outside

Spec == Init /\ [][Next]_vars

\* The owner of the Space clears its public socket field (line 24); the
\* Socket object itself stays connected and keeps delivering events.
DetachSocket ==
    /\ constructed
    /\ socket
    /\ socket' = FALSE
    /\ socketOps' = <<>>
    /\ emits' = <<>>
    /\ received' = <<>>
    /\ lastOp' = [kind |-> "detach"]
    /\ UNCHANGED <<constructed, reqId, allPages, listeners, promises, sent>>

\* The calls and their responses on a Space that may lose its socket.
NextDetached ==
    \/ Construct /\ UNCHANGED outside
    \/ \E a \in PushInputs : pushUpdates(a[1], a[2], a[3]) /\ UNCHANGED outside
    \/ \E a \in PullInputs : pullUpdates(a[1], a[2]) /\ UNCHANGED outside
    \/ \E n \in PageNames : openPage(n) /\ UNCHANGED outside
    \/ \E i \in DOMAIN sent : \E resp \in Responses(sent[i]) :
           Deliver(sent[i], resp) /\ UNCHANGED outside
    \/ DetachSocket /\ UNCHANGED outside

SpecDetached == Init /\ [][NextDetached]_vars

----------------------------------------------------------------------------
(* The Space against a server that owns the page set. The channel is      *)
(* ordered: the server's messages are received in the order it sent them.  *)
(* The server answers the constructor's page.listPages with the pages it   *)
(* has at that moment and pushes pageCreated / pageDeleted to the socket   *)
(* whenever its set changes. An event that reaches the socket before the   *)
(* constructor registered the forwarders has no listener and is dropped.   *)

MetaOf(name) ==
    [name |-> name, lastModified |-> 1]

\* The arrays that list every element of S once.
Orderings(S) ==
    {a \in [1..Cardinality(S) -> S] : \A i, j \in DOMAIN a : i # j => a[i] # a[j]}

ServerPush(msg) ==
    /\ Len(channel) < MaxInFlight
    /\ channel' = Append(channel, msg)
    /\ UNCHANGED <<constructed, socket, reqId, allPages, listeners, promises,
                   sent, socketOps, emits, received, lastOp, snapshot, batch>>

ServerCreate(name) ==
    /\ name \notin server.pages
    /\ server' = [server EXCEPT !.pages = @ \cup {name}]
    /\ ServerPush([kind |-> "event", event |-> "pageCreated",
                   payload |-> MetaOf(name)])

ServerDelete(name) ==
    /\ name \in server.pages
    /\ server' = [server EXCEPT !.pages = @ \ {name}]
    /\ ServerPush([kind |-> "event", event |-> "pageDeleted", payload |-> name])

\* The server handles the page.listPages request of the constructor.
ServerAnswer(listing) ==
    /\ sent # <<>>
    /\ ~server.answered
    /\ server' = [server EXCEPT !.answered = TRUE]
    /\ ServerPush([kind |-> "response",
                   resp |-> [ev |-> sent[1].ev, id |-> sent[1].id, err |-> Null,
                             result |-> Arr([i \in DOMAIN listing |->
                                               MetaOf(listing[i])])]])

\* The oldest message in flight reaches the socket.
Receive ==
    /\ channel # <<>>
    /\ channel' = Tail(channel)
    /\ LET msg == Head(channel)
       IN  IF msg.kind = "response" THEN Deliver(sent[1], msg.resp)
           ELSE IF constructed THEN Forward(msg.event, msg.payload)
           ELSE UNCHANGED <<constructed, socket, reqId, allPages, listeners,
                            promises, sent, socketOps, emits, received, lastOp>>
    /\ UNCHANGED <<server, snapshot, batch>>

NextSync ==
    \/ Construct /\ UNCHANGED outside
    \/ \E n \in PageNames : ServerCreate(n)
    \/ \E n \in PageNames : ServerDelete(n)
    \/ \E listing \in Orderings(server.pages) : ServerAnswer(listing)
    \/ Receive

SpecSync == Init /\ [][NextSync]_vars

----------------------------------------------------------------------------
(* The page calls, closePage and the pageChanged notification. *)

PageTexts == {"hi"}

NextPageCalls ==
    \/ Construct /\ UNCHANGED outside
    \/ readPage("a") /\ UNCHANGED outside
    \/ \E text \in PageTexts : writePage("a", text) /\ UNCHANGED outside
    \/ deletePage("a") /\ UNCHANGED outside
    \/ getPageMeta("a") /\ UNCHANGED outside
    \/ \E n \in PageNames : closePage(n) /\ UNCHANGED outside
    \/ \E i \in DOMAIN sent : \E resp \in Responses(sent[i]) :
           Deliver(sent[i], resp) /\ UNCHANGED outside
    \/ \E m \in PageMetas : OnPageChanged(m) /\ UNCHANGED outside

SpecPageCalls == Init /\ [][NextPageCalls]_vars

----------------------------------------------------------------------------
(* listPages() between the events that change the registry. *)

NextSnapshot ==
    \/ Construct /\ UNCHANGED outside
    \/ listPages /\ UNCHANGED <<server, channel, batch>>
    \/ \E i \in DOMAIN sent : \E resp \in Responses(sent[i]) :
           Deliver(sent[i], resp) /\ UNCHANGED outside
    \/ \E m \in PageMetas : OnPageCreated(m) /\ UNCHANGED outside
    \/ \E n \in PageNames : OnPageDeleted(n) /\ UNCHANGED outside

SpecSnapshot == Init /\ [][NextSnapshot]_vars

----------------------------------------------------------------------------
(* indexBatchSet among other calls. *)

KV1 == [key |-> "k1", value |-> Str("v1")]
KV2 == [key |-> "k2", value |-> Str("v2")]

BatchInputs == {<<>>, <<KV1>>, <<KV1, KV2>>}

\* The requests the running indexBatchSet has still to emit.
StillToEmit ==
    IF batch.state = "running" THEN Len(batch.kvs) - Len(batch.calls) ELSE 0

\* Request i is the one the running indexBatchSet awaits.
IsAwaited(i) ==
    /\ batch.state = "running"
    /\ promises[Awaited(batch)].id = sent[i].id

NextBatch ==
    \/ Construct /\ UNCHANGED outside
    \/ \E kvs \in BatchInputs :
          /\ reqId + Len(kvs) <= MaxBatchReqId
          /\ indexBatchSet("a", kvs)
          /\ UNCHANGED <<server, channel, snapshot>>
    \/ /\ reqId + 1 + StillToEmit <= MaxBatchReqId
       /\ indexGet("a", "k1")
       /\ UNCHANGED outside
    \/ \E i \in DOMAIN sent : \E resp \in Responses(sent[i]) :
          /\ ~IsAwaited(i)
          /\ Deliver(sent[i], resp)
          /\ UNCHANGED outside
    \/ \E i \in DOMAIN sent : \E resp \in Responses(sent[i]) :
          /\ IsAwaited(i)
          /\ DeliverToBatch(resp)
          /\ UNCHANGED <<server, channel, snapshot>>

SpecBatch == Init /\ [][NextBatch]_vars

----------------------------------------------------------------------------
(* The index calls. *)

NextIndex ==
    \/ Construct /\ UNCHANGED outside
    \/ reqId < MaxReqId /\ indexSet("a", KV1.key, KV1.value) /\ UNCHANGED outside
    \/ reqId < MaxReqId /\ indexGet("a", "k1") /\ UNCHANGED outside
    \/ reqId < MaxReqId /\ indexScanPrefixForPage("a", "k") /\ UNCHANGED outside
    \/ reqId < MaxReqId /\ indexScanPrefixGlobal("k") /\ UNCHANGED outside
    \/ \E n \in PageNames :
          reqId < MaxReqId /\ indexDeletePrefixForPage(n, "k") /\ UNCHANGED outside
    \/ reqId < MaxReqId /\ indexDelete("a", "k1") /\ UNCHANGED outside
    \/ \E i \in DOMAIN sent : \E resp \in Responses(sent[i]) :
           Deliver(sent[i], resp) /\ UNCHANGED outside

SpecIndex == Init /\ [][NextIndex]_vars

----------------------------------------------------------------------------
(* The calls under a server that eventually answers every request. *)

\* The response to the i-th request on the channel is delivered.
DeliverResponseTo(i) ==
    /\ i \in DOMAIN sent
    /\ \E resp \in Responses(sent[i]) : Deliver(sent[i], resp)
    /\ UNCHANGED outside

NextAnswered ==
    \/ Construct /\ UNCHANGED outside
    \/ \E a \in PushInputs : pushUpdates(a[1], a[2], a[3]) /\ UNCHANGED outside
    \/ \E a \in PullInputs : pullUpdates(a[1], a[2]) /\ UNCHANGED outside
    \/ \E n \in PageNames : openPage(n) /\ UNCHANGED outside
    \/ \E i \in 1..MaxReqId : DeliverResponseTo(i)

\* Every emitted request's response is eventually delivered.
EveryRequestAnswered ==
    \A i \in 1..MaxReqId : WF_vars(DeliverResponseTo(i))

SpecAnswered == Init /\ [][NextAnswered]_vars /\ EveryRequestAnswered

----------------------------------------------------------------------------
(* Vocabulary of the properties. *)

CallKinds == {"constructor", "pushUpdates", "pullUpdates", "openPage"}

\* The socket operations of kind op performed by the last step.
OpsOf(ops, op) ==
    {i \in DOMAIN ops : ops[i].op = op}

\* An emit that carries a request identifier.
IsRequest(o) ==
    o.op = "emit" /\ "id" \in DOMAIN o

NonNull(x) ==
    x.t \notin {"null", "undefined"}

\* Some call that emitted the request answered by response event name has
\* already been settled.
SettledRequest(name) ==
    \E c \in DOMAIN promises :
        /\ promises[c].emitted
        /\ RespName(promises[c].ev, promises[c].id) = name
        /\ promises[c].state # "pending"

----------------------------------------------------------------------------
(* C1: whatever requests are outstanding together and in whatever order    *)
(* their responses arrive, the callback of a call runs only for a response *)
(* to the request that call emitted (same event name, same identifier),    *)
(* and the promise is settled with that response's error or payload.       *)

CorrelatorIsOrderIndependent ==
    \A c \in DOMAIN promises :
        LET p == promises[c]
        IN  /\ \A i \in DOMAIN p.ran : p.ran[i].ev = p.ev /\ p.ran[i].id = p.id
            /\ (p.emitted /\ p.state # "pending") => Len(p.ran) >= 1
            /\ (p.emitted /\ p.state = "rejected") => p.value = p.ran[1].err
            /\ (p.emitted /\ p.state = "resolved") => p.value = p.ran[1].result

\* Two requests of the same event are outstanding and the later one was
\* answered first.
OutOfOrderResponse ==
    \E c \in DOMAIN promises, d \in DOMAIN promises :
        /\ c < d
        /\ promises[c].ev = promises[d].ev
        /\ promises[c].state = "pending"
        /\ promises[d].state # "pending"
        /\ lastOp.kind = "response"

(* C2: the identifiers of the emitted correlated requests are positive and *)
(* strictly increasing in emission order (so none is used twice), also     *)
(* across openPage, which advances the counter once more.                  *)

RequestIdsStrictlyIncrease ==
    \A i \in DOMAIN sent :
        /\ sent[i].id > 0
        /\ \A j \in DOMAIN sent : i < j => sent[i].id < sent[j].id

\* An openPage request was emitted, two above the request before it.
OpenPageSkipsAnId ==
    \E i \in DOMAIN sent :
        /\ i > 1
        /\ sent[i].ev = "page.openPage"
        /\ sent[i].id = sent[i - 1].id + 2

(* C3: when a response is delivered, the promise fails carrying the first  *)
(* response field if and only if that field is a non-null error indicator, *)
(* and otherwise resolves with the second field; a failed request is not   *)
(* emitted again.                                                          *)

RejectsIffErrorNonNull ==
    \A c \in DOMAIN promises :
        LET p == promises[c]
        IN  (p.emitted /\ Len(p.ran) >= 1) =>
                /\ NonNull(p.ran[1].err) <=>
                       (p.state = "rejected" /\ p.value = p.ran[1].err)
                /\ ~NonNull(p.ran[1].err) =>
                       (p.state = "resolved" /\ p.value = p.ran[1].result)
                /\ Cardinality({i \in DOMAIN sent : sent[i].id = p.id}) = 1

(* C4: once the response of a request has settled its promise, a later     *)
(* delivery of a response event with the same name changes neither the     *)
(* promise nor any state of the Space, and emits nothing.                  *)

AtMostOneResolution ==
    [][(lastOp'.kind = "response" /\ SettledRequest(lastOp'.name)) =>
           /\ promises' = promises
           /\ allPages' = allPages
           /\ reqId' = reqId
           /\ listeners' = listeners
           /\ emits' = <<>>]_vars

\* A response event was delivered for a request that was settled before, and
\* no listener was left to hear it.
DuplicateResponseDelivered ==
    /\ lastOp.kind = "response"
    /\ lastOp.fired = {}
    /\ SettledRequest(lastOp.name)
    /\ \A c \in DOMAIN promises : Len(promises[c].ran) <= 1

(* C5: every call registers the one-shot listener of its response event    *)
(* before it emits the request, performs exactly one emit and one          *)
(* registration, and a request whose response was not yet delivered has    *)
(* its listener registered.                                                *)

ListenerRegisteredBeforeEmit ==
    /\ \A i \in DOMAIN socketOps :
           IsRequest(socketOps[i]) =>
               \E j \in DOMAIN socketOps :
                   /\ j < i
                   /\ socketOps[j].op = "once"
                   /\ socketOps[j].name = RespName(socketOps[i].name, socketOps[i].id)
    /\ lastOp.kind \in CallKinds =>
           /\ Cardinality(OpsOf(socketOps, "emit")) = 1
           /\ Cardinality(OpsOf(socketOps, "once")) = 1
    /\ \A c \in DOMAIN promises :
           promises[c].state = "pending" =>
               [name |-> RespName(promises[c].ev, promises[c].id), call |-> c]
                   \in listeners

\* A call has just registered its listener and emitted its request while an
\* earlier request is still outstanding.
CallJustEmitted ==
    /\ lastOp.kind \in {"pushUpdates", "pullUpdates", "openPage"}
    /\ Len(socketOps) = 2
    /\ Cardinality(listeners) >= 2

(* C6: pushUpdates with a socket emits exactly one page.pushUpdates        *)
(* request carrying the caller's page name, the caller's version           *)
(* unchanged, and one wire update {clientID, changes, cursors} per input   *)
(* update in the same order; the promise it returns resolves with the      *)
(* payload of the correlated response.                                     *)

PushEmitsCallersArguments ==
    /\ (lastOp.kind = "pushUpdates" /\ lastOp.call > 0) =>
           /\ Len(socketOps) = 2
           /\ \A i \in OpsOf(socketOps, "emit") :
                  LET o == socketOps[i]
                      us == lastOp.fullUpdates
                  IN  /\ o.name = "page.pushUpdates"
                      /\ o.id = reqId
                      /\ Len(o.args) = 3
                      /\ o.args[1] = lastOp.pageName
                      /\ o.args[2] = lastOp.version
                      /\ Len(o.args[3]) = Len(us)
                      /\ \A k \in DOMAIN us :
                             /\ o.args[3][k].clientID = us[k].clientID
                             /\ o.args[3][k].changes = toJSON(us[k].changes)
                             /\ o.args[3][k].cursors =
                                    IF "effects" \in DOMAIN us[k]
                                    THEN Arr([e \in DOMAIN us[k].effects |->
                                                 us[k].effects[e].value])
                                    ELSE Undefined
    /\ \A c \in DOMAIN promises :
           LET p == promises[c]
           IN  (p.ev = "page.pushUpdates" /\ p.emitted) =>
                   /\ p.outer.state = p.state
                   /\ p.outer.state = "resolved" => p.outer.value = p.ran[1].result

\* pushUpdates has just been called with two updates, one with a cursor
\* effect and one without.
PushOfTwoUpdates ==
    /\ lastOp.kind = "pushUpdates"
    /\ lastOp.call > 0
    /\ Len(lastOp.fullUpdates) = 2
    /\ Cardinality(OpsOf(socketOps, "emit")) = 1

(* C7: with no socket attached, pushUpdates returns false, emits no        *)
(* request, registers no listener, leaves the request identifier counter   *)
(* where it was and leaves the page registry unchanged.                    *)

PushWithoutSocketFailsClosed ==
    [][(lastOp'.kind = "pushUpdates" /\ ~socket) =>
           /\ lastOp'.ret = Bool(FALSE)
           /\ lastOp'.call = 0
           /\ socketOps' = <<>>
           /\ reqId' = reqId
           /\ listeners' = listeners
           /\ promises' = promises
           /\ sent' = sent
           /\ allPages' = allPages]_vars

\* pushUpdates has just returned false on a Space whose socket is gone.
PushReturnedFalse ==
    /\ lastOp.kind = "pushUpdates"
    /\ ~socket
    /\ lastOp.ret = Bool(FALSE)
    /\ reqId < MaxReqId

(* C8: constructing a Space emits page.listPages with identifier 1 and no  *)
(* pageListUpdated; when the call resolves, the page set is exactly the    *)
(* pages of the response payload, whatever events were processed before,   *)
(* and one pageListUpdated carrying that set is emitted; a pageListUpdated *)
(* is emitted only by that response or by a pageCreated / pageDeleted.     *)

ListedCopies(result, m) ==
    IF result.t = "array"
    THEN Cardinality({i \in DOMAIN result.v : result.v[i] = m})
    ELSE 0

ConstructorListsPages ==
    /\ lastOp.kind = "constructor" =>
           /\ emits = <<>>
           /\ \E i \in DOMAIN socketOps :
                  /\ IsRequest(socketOps[i])
                  /\ socketOps[i].name = "page.listPages"
                  /\ socketOps[i].id = 1
           /\ sent = <<[ev |-> "page.listPages", id |-> 1]>>
    /\ \A c \in DOMAIN promises :
           (/\ lastOp.kind = "response"
            /\ c \in lastOp.fired
            /\ promises[c].cont = "constructor"
            /\ promises[c].state = "resolved") =>
               /\ \A m \in PageMetas \cup DOMAIN allPages :
                      CopiesIn(m, allPages) = ListedCopies(promises[c].value, m)
               /\ emits = <<[event |-> "pageListUpdated", payload |-> allPages]>>
    /\ (\E i \in DOMAIN emits : emits[i].event = "pageListUpdated") =>
           \/ lastOp.kind \in {"pageCreated", "pageDeleted"}
           \/ /\ lastOp.kind = "response"
              /\ \E c \in lastOp.fired : /\ promises[c].cont = "constructor"
                                        /\ promises[c].state = "resolved"

\* The page list has just arrived and replaced the registry.
PageListArrived ==
    /\ lastOp.kind = "response"
    /\ \E c \in lastOp.fired : /\ promises[c].cont = "constructor"
                              /\ promises[c].state = "resolved"
                              /\ promises[c].value.t = "array"
    /\ BagCardinality(allPages) = 2
    /\ Len(emits) = 1

(* C9: a pageCreated(meta) event adds meta to the page set and causes      *)
(* exactly two emissions, pageCreated(meta) and a derived pageListUpdated; *)
(* whenever a subscriber registered after construction receives either,    *)
(* the registry holds meta, and the set carried by pageListUpdated holds   *)
(* meta and every page that was in the registry before.                    *)

PageCreatedAddsThenEmits ==
    [][lastOp'.kind = "pageCreated" =>
           LET meta == lastOp'.payload
           IN  /\ CopiesIn(meta, allPages') = CopiesIn(meta, allPages) + 1
               /\ Len(emits') = 2
               /\ emits'[1] = [event |-> "pageCreated", payload |-> meta]
               /\ emits'[2].event = "pageListUpdated"
               /\ Len(received') = 2
               /\ {received'[i].event : i \in DOMAIN received'}
                      = {"pageCreated", "pageListUpdated"}
               /\ \A i \in DOMAIN received' :
                      /\ BagIn(meta, received'[i].registry)
                      /\ received'[i].event = "pageListUpdated" =>
                             /\ BagIn(meta, received'[i].payload)
                             /\ allPages \sqsubseteq received'[i].payload]_vars

\* A page was created while the registry already held another page.
PageCreatedIntoNonEmptyRegistry ==
    /\ lastOp.kind = "pageCreated"
    /\ BagCardinality(allPages) = 2
    /\ Cardinality(DOMAIN allPages) = 2
    /\ Len(received) = 2

(* C10: after a pageDeleted(name) event the registry holds no entry named  *)
(* name, however many were created before, and every entry with another    *)
(* name is still there; the deletion causes one pageDeleted and one        *)
(* derived pageListUpdated emission.                                       *)

PageDeletedRemovesEveryEntry ==
    [][lastOp'.kind = "pageDeleted" =>
           LET name == lastOp'.payload
           IN  /\ \A m \in DOMAIN allPages' : m.name # name
               /\ \A m \in DOMAIN allPages :
                      m.name # name => CopiesIn(m, allPages') = CopiesIn(m, allPages)
               /\ emits' = <<[event |-> "pageDeleted", payload |-> name],
                             [event |-> "pageListUpdated", payload |-> allPages']>>]_vars

\* A page was deleted and a page of another name is still registered.
PageDeletedOthersKept ==
    /\ lastOp.kind = "pageDeleted"
    /\ allPages # EmptyBag
    /\ \A m \in DOMAIN allPages : m.name # lastOp.payload

(* C11: in every reachable state the local page set holds at most one      *)
(* entry per page name, also after a pageCreated for a name that is        *)
(* already in the set.                                                     *)

\* The number of entries of the registry that carry the name.
EntriesNamed(pages, name) ==
    BagCardinality([m \in {x \in DOMAIN pages : x.name = name} |-> pages[m]])

PageSetUniqueByName ==
    \A n \in PageNames : EntriesNamed(allPages, n) <= 1

(* C12: over an ordered channel, with a server that answers page.listPages *)
(* with its current page set and pushes pageCreated / pageDeleted for      *)
(* every change of that set, the page names of the registry equal the      *)
(* server's page names whenever no message is in flight, however the       *)
(* server's changes interleave with the listPages request and response.    *)

NamesOf(pages) ==
    {m.name : m \in DOMAIN pages}

Quiescent ==
    /\ constructed
    /\ server.answered
    /\ channel = <<>>

RegistryConvergesToServer ==
    Quiescent => NamesOf(allPages) = server.pages

\* The server's set changed while the listPages request was in flight and
\* again after the response; everything has been delivered.
ConvergedAfterLaterChange ==
    /\ Quiescent
    /\ lastOp.kind = "pageDeleted"
    /\ server.pages # {}
    /\ NamesOf(allPages) = server.pages

(* C13: pageChanged(meta) is forwarded to subscribers exactly once with    *)
(* the same payload, leaves the page set unchanged and emits no            *)
(* pageListUpdated; readPage, writePage, deletePage and getPageMeta leave  *)
(* the page set unchanged when they are called and when their responses    *)
(* arrive.                                                                 *)

PageCallKinds == {"readPage", "writePage", "deletePage", "getPageMeta"}

PageCallEvents ==
    {"page.readPage", "page.writePage", "page.deletePage", "page.getPageMeta"}

PageChangedIsOnlyForwarded ==
    [][/\ lastOp'.kind = "pageChanged" =>
            /\ emits' = <<[event |-> "pageChanged", payload |-> lastOp'.payload]>>
            /\ Len(received') = 1
            /\ received'[1].event = "pageChanged"
            /\ received'[1].payload = lastOp'.payload
            /\ allPages' = allPages
       /\ lastOp'.kind \in PageCallKinds =>
            /\ allPages' = allPages
            /\ emits' = <<>>
       /\ (/\ lastOp'.kind = "response"
           /\ \E c \in lastOp'.fired : promises[c].ev \in PageCallEvents) =>
            /\ allPages' = allPages
            /\ emits' = <<>>]_vars

\* pageChanged arrives for a page of a non-empty registry after the server
\* has confirmed deletePage for that page.
PageChangedAfterDeleteConfirmed ==
    /\ lastOp.kind = "pageChanged"
    /\ lastOp.payload.name = "a"
    /\ EntriesNamed(allPages, "a") = 1
    /\ \E c \in DOMAIN promises :
          promises[c].ev = "page.deletePage" /\ promises[c].outer.state = "resolved"

(* C16: closePage(name) emits exactly one page.closePage message that      *)
(* carries name, registers no response listener, does not advance reqId,   *)
(* leaves the page set unchanged, and completes without waiting for any    *)
(* message from the server.                                                *)

ClosePageIsFireAndForget ==
    [][lastOp'.kind = "closePage" =>
          /\ socketOps' = <<[op |-> "emit", name |-> "page.closePage",
                             args |-> <<lastOp'.name>>]>>
          /\ listeners' = listeners
          /\ promises' = promises
          /\ sent' = sent
          /\ reqId' = reqId
          /\ allPages' = allPages
          /\ lastOp'.ret.state = "resolved"]_vars

\* closePage was called while a request is outstanding and pages are listed.
ClosePageWhileRequestOutstanding ==
    /\ lastOp.kind = "closePage"
    /\ allPages # EmptyBag
    /\ \E c \in DOMAIN promises : promises[c].state = "pending"

(* C14: listPages() emits no request on the channel and does not advance   *)
(* reqId; it returns the current contents of the registry; two calls with  *)
(* no event or response in between return equal snapshots; and a snapshot  *)
(* that was returned is not altered by a later pageCreated, pageDeleted or *)
(* page.listPages response.                                                *)

ListPagesReturnsSnapshot ==
    [][/\ lastOp'.kind = "listPages" =>
            /\ socketOps' = <<>>
            /\ sent' = sent
            /\ listeners' = listeners
            /\ promises' = promises
            /\ reqId' = reqId
            /\ ItemsOf(lastOp'.ret, allPages') = allPages
       /\ (lastOp.kind = "listPages" /\ lastOp'.kind = "listPages") =>
            ItemsOf(lastOp'.ret, allPages') = ItemsOf(lastOp.ret, allPages)
       /\ (snapshot.taken /\ lastOp'.kind \in {"pageCreated", "pageDeleted", "response"}) =>
            /\ snapshot'.taken
            /\ ItemsOf(snapshot'.array, allPages') = ItemsOf(snapshot.array, allPages)]_vars

\* A snapshot of a non-empty registry is held while a pageDeleted event has
\* just removed one of the pages it lists.
SnapshotOlderThanRegistry ==
    /\ snapshot.taken
    /\ lastOp.kind = "pageDeleted"
    /\ snapshot.array.items # EmptyBag
    /\ ItemsOf(snapshot.array, allPages) # allPages

(* C15: when the index.set call of entry i is the first of an              *)
(* indexBatchSet(page, kvs) to fail, index.set requests were emitted for   *)
(* entries 1..i only and the batch rejects with the error of entry i; when *)
(* no entry fails, exactly one index.set request per entry was emitted and *)
(* the batch resolves.                                                     *)

\* The index.set requests on the channel since the batch started are the
\* batch's own, one per call, each carrying the entry of its position.
BatchRequestsAreEntries(n) ==
    /\ Len(batch.calls) = n
    /\ Len(batch.requests) = n
    /\ \A j \in 1..n :
          /\ batch.requests[j].args =
                <<batch.pageName, batch.kvs[j].key, batch.kvs[j].value>>
          /\ sent[batch.calls[j]] = [ev |-> "index.set", id |-> batch.requests[j].id]
    /\ \A x \in DOMAIN sent :
          (n > 0 /\ x >= batch.calls[1] /\ sent[x].ev = "index.set")
             => \E j \in 1..n : batch.calls[j] = x

BatchStopsAtFirstFailure ==
    /\ batch.state = "rejected" =>
          \E i \in DOMAIN batch.kvs :
             /\ BatchRequestsAreEntries(i)
             /\ \A j \in 1..(i - 1) : promises[batch.calls[j]].state = "resolved"
             /\ promises[batch.calls[i]].state = "rejected"
             /\ batch.value = promises[batch.calls[i]].value
             /\ batch.value = promises[batch.calls[i]].ran[1].err
    /\ batch.state = "resolved" =>
          /\ BatchRequestsAreEntries(Len(batch.kvs))
          /\ \A j \in DOMAIN batch.kvs : promises[batch.calls[j]].state = "resolved"
    /\ batch.state = "running" =>
          \A j \in DOMAIN batch.calls : promises[batch.calls[j]].state # "rejected"

\* A batch of two entries was rejected by the failure of its first entry.
BatchRejectedAtFirstEntry ==
    /\ batch.state = "rejected"
    /\ Len(batch.kvs) = 2
    /\ Len(batch.calls) = 1
    /\ batch.value = Str("full")

(* C19: requests reach the channel in call order, and the index.set        *)
(* requests of one indexBatchSet call are emitted in entry order with at   *)
(* most one of them outstanding at any time: the request for entry k+1 is  *)
(* not emitted before the response for entry k has been delivered, while   *)
(* other calls' requests may be emitted in between.                        *)

BatchIsSequential ==
    /\ \A c \in DOMAIN sent :
          /\ c \in DOMAIN promises
          /\ sent[c] = [ev |-> promises[c].ev, id |-> promises[c].id]
          /\ \A d \in DOMAIN sent : c < d => sent[c].id < sent[d].id
    /\ batch.state # "none" =>
          /\ \A j \in DOMAIN batch.calls :
                /\ batch.requests[j].args =
                      <<batch.pageName, batch.kvs[j].key, batch.kvs[j].value>>
                /\ sent[batch.calls[j]].id = batch.requests[j].id
                /\ j < Len(batch.calls) =>
                      /\ batch.calls[j] < batch.calls[j + 1]
                      /\ promises[batch.calls[j]].state = "resolved"
                      /\ promises[batch.calls[j]].ran # <<>>
          /\ Cardinality({j \in DOMAIN batch.calls :
                             promises[batch.calls[j]].state = "pending"}) <= 1

\* Another call's request went out between the two requests of a batch and
\* is still outstanding together with the batch's second request.
OtherRequestBetweenEntries ==
    /\ batch.state = "running"
    /\ Len(batch.calls) = 2
    /\ batch.calls[2] > batch.calls[1] + 1
    /\ promises[batch.calls[1] + 1].state = "pending"
    /\ promises[batch.calls[2]].state = "pending"

(* C17: push / pull round trip. When the server relays, unchanged, in a    *)
(* page.pullUpdates response the wire updates {clientID, changes,          *)
(* cursors?} that pushUpdates serialized, pullUpdates returns as many      *)
(* updates in the same order, each with the same clientID and the same     *)
(* change set, and, for an update serialized with a cursor payload, with   *)
(* the cursor effects rebuilt from those raw cursor values.                *)

\* The local updates of the push whose wire form the server relays.
Pushed == <<UpdateU1, UpdateU2>>

Relayed == [i \in DOMAIN Pushed |-> OnWire(Serialize(Pushed[i]))]

PullRestoresPushedUpdates ==
    \A c \in DOMAIN promises :
        (/\ promises[c].cont = "pullUpdates"
         /\ promises[c].state = "resolved"
         /\ promises[c].value = Arr(Relayed)) =>
            /\ promises[c].outer.state = "resolved"
            /\ promises[c].outer.value.t = "array"
            /\ Len(promises[c].outer.value.v) = Len(Pushed)
            /\ \A i \in DOMAIN Pushed :
                  LET got == promises[c].outer.value.v[i]
                  IN  /\ got.clientID = Pushed[i].clientID
                      /\ got.changes = Pushed[i].changes
                      /\ "cursors" \in DOMAIN Relayed[i] =>
                            /\ "effects" \in DOMAIN got
                            /\ got.effects =
                                  [j \in DOMAIN Relayed[i].cursors |->
                                     cursorEffectOf(Relayed[i].cursors[j])]

(* C18: every index operation emits exactly one correlated request that   *)
(* carries all its scoping arguments: indexSet, indexGet,                  *)
(* indexScanPrefixForPage, indexDeletePrefixForPage and indexDelete send   *)
(* pageName together with the key or prefix, indexScanPrefixGlobal sends   *)
(* only the prefix; so two indexDeletePrefixForPage calls with the same    *)
(* prefix and different pages emit distinguishable requests.               *)

PerPageIndexKinds ==
    {"indexSet", "indexGet", "indexScanPrefixForPage", "indexDeletePrefixForPage",
     "indexDelete"}

IndexRequestsCarryScope ==
    lastOp.kind \in PerPageIndexKinds \cup {"indexScanPrefixGlobal"} =>
        /\ Cardinality({i \in DOMAIN socketOps : IsRequest(socketOps[i])}) = 1
        /\ \A i \in DOMAIN socketOps :
              IsRequest(socketOps[i]) =>
                 IF lastOp.kind = "indexScanPrefixGlobal"
                 THEN socketOps[i].args = <<lastOp.key>>
                 ELSE /\ Len(socketOps[i].args) >= 2
                      /\ socketOps[i].args[1] = lastOp.pageName
                      /\ socketOps[i].args[2] = lastOp.key

(* C20: a call's promise is settled only by the delivery of its own        *)
(* response event: while the response is not delivered the promise stays   *)
(* pending and its one-shot listener stays registered (no timeout, no      *)
(* cancellation); and when every emitted request's response is eventually  *)
(* delivered, every call's promise eventually settles, and the registered  *)
(* response listeners are as many as the requests still outstanding.       *)

Outstanding ==
    {c \in DOMAIN promises : promises[c].state = "pending"}

ListenersMatchOutstanding ==
    /\ \A c \in Outstanding :
          [name |-> RespName(promises[c].ev, promises[c].id), call |-> c] \in listeners
    /\ Cardinality(listeners) = Cardinality(Outstanding)

SettledByOwnResponse ==
    \A c \in Outstanding :
        promises'[c].state # "pending" =>
            /\ lastOp'.kind = "response"
            /\ lastOp'.name = RespName(promises[c].ev, promises[c].id)
            /\ c \in lastOp'.fired

PromiseSettlesWithItsResponse ==
    /\ []ListenersMatchOutstanding
    /\ [][SettledByOwnResponse]_vars
    /\ \A c \in 1..MaxReqId :
          [](c \in DOMAIN promises =>
                <>(c \in DOMAIN promises /\ promises[c].state # "pending"))

\* A younger request has been answered while an older one is outstanding
\* with its listener still registered.
OlderRequestStillOutstanding ==
    \E c, d \in DOMAIN promises :
        /\ c < d
        /\ promises[c].state = "pending"
        /\ promises[d].state # "pending"
        /\ Cardinality(listeners) = 1

====
